---------------------------- MODULE Spec2Model ----------------------------
(***************************************************************************)
(* Model of rust-shell (src/src/main.rs): the read loop of main, the       *)
(* pipeline executor shell_run, the built-in cd (resolve_cd) and the token *)
(* expander expand_args.                                                   *)
(*                                                                         *)
(* A string is a sequence of one-character strings, so that splitting,     *)
(* trimming and the test for wildcard metacharacters are computed on       *)
(* characters, as the code computes them.                                  *)
(***************************************************************************)
EXTENDS Integers, Sequences, FiniteSets, TLC

(***************************************************************************)
(* Bounds.                                                                 *)
(***************************************************************************)
\* number of lexemes (words and separator characters) of an input line
MaxLen == 5

(***************************************************************************)
(* Strings.                                                                *)
(***************************************************************************)
RECURSIVE Flatten(_)
Flatten(ss) == IF ss = <<>> THEN <<>> ELSE Head(ss) \o Flatten(Tail(ss))

\* char::is_whitespace, on the characters the model's lines are made of
is_whitespace(c) == c \in {" ", "\n"}

\* str::trim: strips leading and trailing whitespace
RECURSIVE trim_start(_)
trim_start(s) ==
    IF s # <<>> /\ is_whitespace(Head(s)) THEN trim_start(Tail(s)) ELSE s

RECURSIVE trim_end(_)
trim_end(s) ==
    IF s # <<>> /\ is_whitespace(s[Len(s)])
    THEN trim_end(SubSeq(s, 1, Len(s) - 1))
    ELSE s

trim(s) == trim_end(trim_start(s))

\* str::split(sep): the pieces between the separators, empty pieces included;
\* a string with n separators gives n + 1 pieces
RECURSIVE split_from(_, _, _)
split_from(s, sep, cur) ==
    IF s = <<>> THEN << cur >>
    ELSE IF Head(s) = sep
         THEN << cur >> \o split_from(Tail(s), sep, <<>>)
         ELSE split_from(Tail(s), sep, Append(cur, Head(s)))

split(s, sep) == split_from(s, sep, <<>>)

\* str::split_whitespace: the maximal runs of non-whitespace characters
RECURSIVE split_ws_from(_, _)
split_ws_from(s, cur) ==
    IF s = <<>> THEN (IF cur = <<>> THEN <<>> ELSE << cur >>)
    ELSE IF is_whitespace(Head(s))
         THEN (IF cur = <<>> THEN <<>> ELSE << cur >>) \o split_ws_from(Tail(s), <<>>)
         ELSE split_ws_from(Tail(s), Append(cur, Head(s)))

split_whitespace(s) == split_ws_from(s, <<>>)

\* Iterator::map over a sequence of strings
RECURSIVE map_trim(_)
map_trim(ss) ==
    IF ss = <<>> THEN <<>> ELSE << trim(Head(ss)) >> \o map_trim(Tail(ss))

\* Iterator::filter(|s| !s.is_empty())
RECURSIVE filter_nonempty(_)
filter_nonempty(ss) ==
    IF ss = <<>> THEN <<>>
    ELSE IF Head(ss) # <<>>
         THEN << Head(ss) >> \o filter_nonempty(Tail(ss))
         ELSE filter_nonempty(Tail(ss))

\* split_commands without the filter
split_commands_no_filter(input) == map_trim(split(input, "|"))

\* the stages of a line: input.split("|").map(str::trim).filter(non-empty)
split_commands(input) == filter_nonempty(map_trim(split(input, "|")))


(***************************************************************************)
(* The environment: the filesystem, the home directory, the executables.  *)
(* A path is kept as its sequence of components; the strings the code     *)
(* handles are converted with path_of and to_string.                       *)
(***************************************************************************)
\* the value shellexpand resolves "~" to (dirs::home_dir)
HomeStr == <<"/", "h">>

\* the variables of the process environment
EnvVars == [ HOME |-> HomeStr, V |-> <<"c", "d">> ]

\* directories that can be entered, directories that cannot (no search
\* permission), and plain files
Dirs == { <<>>, << <<"h">> >>, << <<"h">>, <<"d">> >> }

NoPermDirs == { << <<"h">>, <<"x">> >> }

Files == { << <<"h">>, <<"a">> >>, << <<"h">>, <<"$", "U">> >> }

Entries == Dirs \cup NoPermDirs \cup Files

\* the program names the operating system's executable search finds
Programs == { <<"l", "s">> }

\* the components of a path string (empty components, from a leading, a
\* doubled or a trailing "/", are not components)
path_of(s) == filter_nonempty(split(s, "/"))

is_absolute(s) == s # <<>> /\ Head(s) = "/"

RECURSIVE join_comps(_)
join_comps(p) ==
    IF p = <<>> THEN <<>>
    ELSE IF Len(p) = 1 THEN Head(p)
    ELSE Head(p) \o <<"/">> \o join_comps(Tail(p))

\* PathBuf::to_string_lossy of the path `p`, relative or absolute
to_string(p, abs) == IF abs THEN <<"/">> \o join_comps(p) ELSE join_comps(p)

\* the entry a path string names, seen from the working directory `cwd`
resolve_path(cwd, s) == IF is_absolute(s) THEN path_of(s) ELSE cwd \o path_of(s)

\* Path::is_dir
is_dir(cwd, s) == s # <<>> /\ resolve_path(cwd, s) \in (Dirs \cup NoPermDirs)

\* env::set_current_dir: Ok exactly when the path names a directory that
\* can be entered
set_current_dir_ok(cwd, s) == s # <<>> /\ resolve_path(cwd, s) \in Dirs

(***************************************************************************)
(* shellexpand::full: a leading "~" (alone or before "/") becomes the home *)
(* directory, "$NAME" becomes the variable's value, and a reference to a   *)
(* variable that is not set is an error.  The result is [ok, val].         *)
(***************************************************************************)
is_var_char(c) ==
    c \in { "A", "B", "C", "D", "E", "F", "G", "H", "I", "J", "K", "L", "M",
            "N", "O", "P", "Q", "R", "S", "T", "U", "V", "W", "X", "Y", "Z",
            "a", "b", "c", "d", "e", "f", "g", "h", "i", "j", "k", "l", "m",
            "n", "o", "p", "q", "r", "s", "t", "u", "v", "w", "x", "y", "z",
            "0", "1", "2", "3", "4", "5", "6", "7", "8", "9", "_" }

RECURSIVE var_name(_)
var_name(s) ==
    IF s # <<>> /\ is_var_char(Head(s))
    THEN << Head(s) >> \o var_name(Tail(s))
    ELSE <<>>

\* the variable names of the model, as strings
EnvName(n) ==
    IF n = <<"H", "O", "M", "E">> THEN "HOME"
    ELSE IF n = <<"V">> THEN "V"
    ELSE "?"

RECURSIVE expand_vars(_)
expand_vars(s) ==
    IF s = <<>> THEN [ok |-> TRUE, val |-> <<>>]
    ELSE IF Head(s) = "$" /\ var_name(Tail(s)) # <<>>
         THEN LET n    == var_name(Tail(s))
                  rest == expand_vars(SubSeq(s, Len(n) + 2, Len(s)))
              IN  IF EnvName(n) \in DOMAIN EnvVars
                  THEN [ok |-> rest.ok, val |-> EnvVars[EnvName(n)] \o rest.val]
                  ELSE [ok |-> FALSE, val |-> <<>>]
         ELSE LET rest == expand_vars(Tail(s))
              IN  [ok |-> rest.ok, val |-> << Head(s) >> \o rest.val]

expand_tilde(s) ==
    IF s # <<>> /\ Head(s) = "~" /\ (Len(s) = 1 \/ s[2] = "/")
    THEN HomeStr \o Tail(s)
    ELSE s

shellexpand_full(s) ==
    LET r == expand_vars(expand_tilde(s))
    IN  IF r.ok THEN r ELSE [ok |-> FALSE, val |-> s]

\* shellexpand::full(arg).unwrap_or_else(|_| arg.into()).into_owned()
\* expand_or_raw whose fallback is the empty string
expand_or_raw_empty(s) == IF shellexpand_full(s).ok THEN shellexpand_full(s).val ELSE <<>>

expand_or_raw(s) == IF shellexpand_full(s).ok THEN shellexpand_full(s).val ELSE s


(***************************************************************************)
(* glob::glob: Err for an invalid pattern, otherwise the entries whose     *)
(* path matches the pattern component by component, in alphabetical        *)
(* order.  The result is [ok, paths].  The model's patterns use "*", "?"   *)
(* and "[...]"; a "[" that opens no character class makes the pattern      *)
(* invalid.                                                                *)
(***************************************************************************)
\* the characters of the model in the order of their codes
CharOrder ==
    << "\n", " ", "!", "$", "*", "-", "/", "?", "E", "H", "M", "O", "U", "V",
       "[", "]", "_", "a", "c", "d", "e", "h", "i", "l", "s", "t", "x", "|",
       "~" >>

char_code(c) ==
    IF \E i \in 1..Len(CharOrder) : CharOrder[i] = c
    THEN CHOOSE i \in 1..Len(CharOrder) : CharOrder[i] = c
    ELSE 0

RECURSIVE str_le(_, _)
str_le(a, b) ==
    IF a = <<>> THEN TRUE
    ELSE IF b = <<>> THEN FALSE
    ELSE IF Head(a) = Head(b) THEN str_le(Tail(a), Tail(b))
    ELSE char_code(Head(a)) < char_code(Head(b))

RECURSIVE path_le(_, _)
path_le(p, q) ==
    IF p = <<>> THEN TRUE
    ELSE IF q = <<>> THEN FALSE
    ELSE IF Head(p) = Head(q) THEN path_le(Tail(p), Tail(q))
    ELSE str_le(Head(p), Head(q))

RECURSIVE sorted_paths(_)
sorted_paths(S) ==
    IF S = {} THEN <<>>
    ELSE LET m == CHOOSE x \in S : \A y \in S : path_le(x, y)
         IN  << m >> \o sorted_paths(S \ {m})

\* the index of the first "]" of s at or after position i, 0 if there is none
RECURSIVE find_close(_, _)
find_close(s, i) ==
    IF i > Len(s) THEN 0
    ELSE IF s[i] = "]" THEN i
    ELSE find_close(s, i + 1)

\* the position of the "]" that closes the class opened by the "[" at the
\* head of s, 0 if that "[" opens no class (glob::Pattern::new)
class_close(s) ==
    IF Len(s) >= 4 /\ s[2] = "!" THEN find_close(s, 4)
    ELSE IF Len(s) >= 3 /\ s[2] # "!" THEN find_close(s, 3)
    ELSE 0

RECURSIVE pattern_ok(_)
pattern_ok(s) ==
    IF s = <<>> THEN TRUE
    ELSE IF Head(s) = "["
         THEN class_close(s) # 0 /\ pattern_ok(SubSeq(s, class_close(s) + 1, Len(s)))
         ELSE pattern_ok(Tail(s))

\* the characters a class body stands for ("a-c" is a range)
RECURSIVE class_chars(_)
class_chars(b) ==
    IF b = <<>> THEN {}
    ELSE IF Len(b) >= 3 /\ b[2] = "-"
         THEN { CharOrder[i] : i \in char_code(b[1])..char_code(b[3]) }
                  \cup class_chars(SubSeq(b, 4, Len(b)))
         ELSE { Head(b) } \cup class_chars(Tail(b))

RECURSIVE match_name(_, _)
match_name(pat, name) ==
    IF pat = <<>> THEN name = <<>>
    ELSE IF Head(pat) = "*"
         THEN match_name(Tail(pat), name)
                \/ (name # <<>> /\ match_name(pat, Tail(name)))
    ELSE IF Head(pat) = "?"
         THEN name # <<>> /\ match_name(Tail(pat), Tail(name))
    ELSE IF Head(pat) = "["
         THEN LET j    == class_close(pat)
                  neg  == pat[2] = "!"
                  body == IF neg THEN SubSeq(pat, 3, j - 1) ELSE SubSeq(pat, 2, j - 1)
              IN  /\ name # <<>>
                  /\ (Head(name) \in class_chars(body)) # neg
                  /\ match_name(SubSeq(pat, j + 1, Len(pat)), Tail(name))
    ELSE name # <<>> /\ Head(name) = Head(pat) /\ match_name(Tail(pat), Tail(name))

match_path(pats, names) ==
    /\ Len(pats) = Len(names)
    /\ \A i \in 1..Len(pats) : match_name(pats[i], names[i])

\* the entries below `base` (itself excluded), as paths relative to it
below(base) ==
    { SubSeq(e, Len(base) + 1, Len(e)) :
        e \in { f \in Entries : Len(f) > Len(base)
                                  /\ SubSeq(f, 1, Len(base)) = base } }

RECURSIVE paths_to_strings(_, _)
paths_to_strings(ps, abs) ==
    IF ps = <<>> THEN <<>>
    ELSE << to_string(Head(ps), abs) >> \o paths_to_strings(Tail(ps), abs)

glob(cwd, pattern) ==
    IF ~pattern_ok(pattern) THEN [ok |-> FALSE, paths |-> <<>>]
    ELSE LET abs  == is_absolute(pattern)
             base == IF abs THEN <<>> ELSE cwd
             hits == { e \in below(base) : match_path(path_of(pattern), e) }
         IN  [ok |-> TRUE, paths |-> paths_to_strings(sorted_paths(hits), abs)]

\* str::contains(['*', '?', '['])
RECURSIVE contains_wildcard(_)
contains_wildcard(s) ==
    s # <<>> /\ (Head(s) \in {"*", "?", "["} \/ contains_wildcard(Tail(s)))

(***************************************************************************)
(* expand_args (main.rs 47-76) and resolve_cd (main.rs 88-105).           *)
(***************************************************************************)
\* what one argument contributes to args_out
\* expand_arg that emits the pattern after its matches
expand_arg_with_pattern(cwd, arg) ==
    LET expanded == expand_or_raw(arg)
    IN  IF contains_wildcard(expanded)
        THEN LET g == glob(cwd, expanded)
             IN  IF g.ok THEN Append(g.paths, expanded) ELSE << expanded >>
        ELSE << expanded >>

\* expand_arg that emits nothing for a pattern without matches
expand_arg_nullglob(cwd, arg) ==
    LET expanded == expand_or_raw(arg)
    IN  IF contains_wildcard(expanded)
        THEN LET g == glob(cwd, expanded)
             IN  IF g.ok THEN g.paths ELSE << expanded >>
        ELSE << expanded >>

expand_arg(cwd, arg) ==
    LET expanded == expand_or_raw(arg)
    IN  IF contains_wildcard(expanded)
        THEN LET g == glob(cwd, expanded)
             IN  IF g.ok /\ g.paths # <<>> THEN g.paths ELSE << expanded >>
        ELSE << expanded >>

RECURSIVE expand_args(_, _)
expand_args(cwd, args) ==
    IF args = <<>> THEN <<>>
    ELSE expand_arg(cwd, Head(args)) \o expand_args(cwd, Tail(args))

\* first_dir that takes the first match, a directory or not
first_dir_any(cwd, paths) == IF paths = <<>> THEN <<>> ELSE Head(paths)

\* the first element of paths that is a directory, <<>> if none is
RECURSIVE first_dir(_, _)
first_dir(cwd, paths) ==
    IF paths = <<>> THEN <<>>
    ELSE IF is_dir(cwd, Head(paths)) THEN Head(paths)
    ELSE first_dir(cwd, Tail(paths))

\* resolve_cd whose default is the empty path
resolve_cd_no_default(cwd, dir) ==
    LET raw      == IF dir = <<>> THEN <<>> ELSE Head(dir)
        expanded == expand_or_raw(raw)
        g        == glob(cwd, expanded)
    IN  IF contains_wildcard(expanded) /\ g.ok /\ first_dir(cwd, g.paths) # <<>>
        THEN first_dir(cwd, g.paths)
        ELSE expanded

\* dir is the sequence of the tokens after "cd": parts.next() is its head,
\* None when it is empty
resolve_cd(cwd, dir) ==
    LET raw      == IF dir = <<>> THEN <<"~">> ELSE Head(dir)
        expanded == expand_or_raw(raw)
        g        == glob(cwd, expanded)
    IN  IF contains_wildcard(expanded) /\ g.ok /\ first_dir(cwd, g.paths) # <<>>
        THEN first_dir(cwd, g.paths)
        ELSE expanded


(***************************************************************************)
(* The input lines.  A line is a sequence of at most MaxLen lexemes (a     *)
(* word, a blank or a pipe separator) followed by the newline read_line    *)
(* keeps; two words are always separated.  The empty string is what        *)
(* read_line gives at the end of the input.                                *)
(***************************************************************************)
CD == <<"c", "d">>

EXIT == <<"e", "x", "i", "t">>

Words == { CD, EXIT, <<"l", "s">>, <<"d">>, <<"a">>, <<"x">>, <<"*">> }

Separators == { <<"|">>, <<" ">> }

RECURSIVE LexSeqs(_)
LexSeqs(n) ==
    IF n = 0 THEN { <<>> }
    ELSE { Append(p[1], p[2]) :
             p \in { q \in LexSeqs(n - 1) \X (Words \cup Separators) :
                       \/ q[1] = <<>>
                       \/ q[2] \in Separators
                       \/ q[1][Len(q[1])] \in Separators } }

Lines ==
    { Flatten(l) \o <<"\n">> : l \in UNION { LexSeqs(n) : n \in 0..MaxLen } }
        \cup { <<>> }

(***************************************************************************)
(* Lines of one stage whose trailing tokens exercise the expansions: a     *)
(* first token followed by at most MaxArgs tokens, single spaces between.  *)
(***************************************************************************)
MaxArgs == 2

\* first tokens: a program, the built-in, and two that an expansion would
\* change ("$V" would become "cd", "*" the entries of the directory)
ArgHeads == { <<"l", "s">>, CD, <<"$", "V">>, <<"*">> }

\* plain, wildcard with matches, class, invalid pattern, no match, home with
\* wildcard, unset variable, unset variable with wildcard, set variable,
\* wildcard whose only directory match cannot be entered
ArgTokens ==
    { <<"d">>, <<"*">>, <<"?">>, <<"[", "a", "d", "]">>, <<"[">>,
      <<"e", "*">>, <<"~", "/", "*">>, <<"$", "U">>, <<"$", "U", "*">>,
      <<"$", "V">>, <<"x", "*">> }

RECURSIVE ArgSeqs(_)
ArgSeqs(n) ==
    IF n = 0 THEN { <<>> }
    ELSE { Append(q[1], q[2]) : q \in ArgSeqs(n - 1) \X ArgTokens }

RECURSIVE join_spaces(_)
join_spaces(ts) ==
    IF ts = <<>> THEN <<>>
    ELSE IF Len(ts) = 1 THEN Head(ts)
    ELSE Head(ts) \o <<" ">> \o join_spaces(Tail(ts))

ArgLines ==
    { join_spaces(<< h >> \o a) \o <<"\n">> :
        h \in ArgHeads, a \in UNION { ArgSeqs(n) : n \in 0..MaxArgs } }

(***************************************************************************)
(* The state.                                                              *)
(***************************************************************************)
VARIABLES
    pc,                \* where main is: "prompt" (top of the loop), "read"
                       \* (read_line), "run" (the loop of shell_run), "wait"
                       \* (final_command.wait()), "done" (main returned),
                       \* "panicked"
    input,             \* the line shell_run was called with
    commands,          \* the stages the iterator `commands` has still to yield
    previous_command,  \* 0 for None, else the index in procs of the Child
    procs,             \* the processes spawned for the current line
    cwd,               \* the working directory of the interpreter
    stderr,            \* what the current line printed with eprintln!
    waited,            \* the processes of the current line wait() returned for
    ret,               \* what the last call of shell_run returned
    log                \* one record for each stage processed of the current line

vars == << pc, input, commands, previous_command, procs, cwd, stderr, waited,
           ret, log >>

Init ==
    /\ pc = "prompt"
    /\ input = <<>>
    /\ commands = <<>>
    /\ previous_command = 0
    /\ procs = <<>>
    /\ cwd = path_of(HomeStr)
    /\ stderr = <<>>
    /\ waited = {}
    /\ ret = "none"
    /\ log = <<>>

(***************************************************************************)
(* main (main.rs 186-201).                                                 *)
(***************************************************************************)
\* the top of the loop: print the prompt (main.rs 190-191); the locals of
\* the last call of shell_run are gone and `input` is a new empty String
Prompt ==
    /\ pc = "prompt"
    /\ input' = <<>>
    /\ commands' = <<>>
    /\ previous_command' = 0
    /\ procs' = <<>>
    /\ stderr' = <<>>
    /\ waited' = {}
    /\ ret' = "none"
    /\ log' = <<>>
    /\ pc' = "read"
    /\ UNCHANGED cwd

\* read a line, one of `lines`, and call shell_run, which builds the
\* iterator over the stages and starts with no previous command (main.rs
\* 193-197, 119-124)
ReadFrom(lines) ==
    /\ pc = "read"
    /\ \E line \in lines :
         /\ input' = line
         /\ commands' = split_commands(line)
    /\ previous_command' = 0
    /\ pc' = "run"
    /\ UNCHANGED << procs, cwd, stderr, waited, ret, log >>

ReadLine == ReadFrom(Lines)

\* read_line fails and unwrap panics
ReadError ==
    /\ pc = "read"
    /\ pc' = "panicked"
    /\ UNCHANGED << input, commands, previous_command, procs, cwd, stderr,
                    waited, ret, log >>

(***************************************************************************)
(* shell_run (main.rs 118-184), one action for each iteration of its loop. *)
(***************************************************************************)
\* drop_child that leaks the descriptor
drop_child_leak(ps, i) == ps

\* dropping the Child `i` closes the read end of its output pipe if the
\* interpreter still holds it; the process is neither killed nor waited on
drop_child(ps, i) ==
    IF i # 0 /\ ps[i].rd = "shell"
    THEN [ps EXCEPT ![i].rd = "closed"]
    ELSE ps

\* the tokens of a stage: command.split_whitespace() (main.rs 128)
parts_of(stage) == split_whitespace(stage)

\* first_token that matches on the whole stage, arguments included
first_token_whole(stage) == stage

\* the command of a stage, its first token: parts.next() (main.rs 129);
\* <<>> is None
\* first_token that expands the token before it is compared
first_token_expanded(stage) ==
    IF parts_of(stage) = <<>> THEN <<>> ELSE expand_or_raw(Head(parts_of(stage)))

first_token(stage) ==
    IF parts_of(stage) = <<>> THEN <<>> ELSE Head(parts_of(stage))

\* the tokens after the first: what `parts` still yields
rest_tokens(stage) ==
    IF parts_of(stage) = <<>> THEN <<>> ELSE Tail(parts_of(stage))

\* previous_after_cd without the reset: the pending Child survives a cd
previous_after_cd_keep(prev) == prev

\* previous_command = None at the end of the cd arm (main.rs 142)
previous_after_cd(prev) == 0

\* "cd" => { ... } (main.rs 135-143)
StageCd ==
    /\ pc = "run"
    /\ commands # <<>>
    /\ first_token(Head(commands)) = CD
    /\ LET stage      == Head(commands)
           target_dir == resolve_cd(cwd, rest_tokens(stage))
           ok         == set_current_dir_ok(cwd, target_dir)
       IN  /\ cwd' = IF ok THEN resolve_path(cwd, target_dir) ELSE cwd
           /\ stderr' = IF ok THEN stderr
                        ELSE Append(stderr, [stage |-> Len(log) + 1, what |-> "cd"])
           /\ log' = Append(log, [kind |-> "cd", parts |-> parts_of(stage),
                                  stdin |-> 0, stdout |-> "none", proc |-> 0,
                                  target |-> target_dir])
    /\ previous_command' = previous_after_cd(previous_command)
    /\ procs' = IF previous_command' = previous_command
                THEN procs
                ELSE drop_child(procs, previous_command)
    /\ commands' = Tail(commands)
    /\ UNCHANGED << pc, input, waited, ret >>

\* StageExit that only notes the request and goes on with the line
StageExit_continue ==
    /\ pc = "run"
    /\ commands # <<>>
    /\ first_token(Head(commands)) = EXIT
    /\ log' = Append(log, [kind |-> "exit", parts |-> parts_of(Head(commands)),
                           stdin |-> 0, stdout |-> "none", proc |-> 0])
    /\ procs' = drop_child(procs, previous_command)
    /\ previous_command' = 0
    /\ commands' = Tail(commands)
    /\ ret' = "false"
    /\ UNCHANGED << pc, input, cwd, stderr, waited >>

\* "exit" => return false (main.rs 144), which drops previous_command, and
\* main returns (main.rs 197-199)
StageExit ==
    /\ pc = "run"
    /\ commands # <<>>
    /\ first_token(Head(commands)) = EXIT
    /\ log' = Append(log, [kind |-> "exit", parts |-> parts_of(Head(commands)),
                           stdin |-> 0, stdout |-> "none", proc |-> 0])
    /\ procs' = drop_child(procs, previous_command)
    /\ previous_command' = 0
    /\ commands' = Tail(commands)
    /\ ret' = "false"
    /\ pc' = "done"
    /\ UNCHANGED << input, cwd, stderr, waited >>

\* take_stdin with the previous output forgotten: every stage inherits
take_stdin_inherit(prev) == 0

\* the input source of an external stage (main.rs 149-153): 0 is
\* Stdio::inherit(), i the read end of the output pipe of process i
take_stdin(prev) == prev

\* output.stdout.unwrap() succeeds: the previous Child has a piped output
unwrap_ok(ps, prev) == prev = 0 \/ ps[prev].stdout = "piped"

\* choose_stdout with a pipe for every stage, the last one included
choose_stdout_piped(rest) == "piped"

\* the output sink of an external stage (main.rs 155-159); `rest` is what
\* the iterator has left after this stage, so peek() is its head
\* choose_stdout that never pipes
choose_stdout_inherit(rest) == "inherit"

choose_stdout(rest) == IF rest # <<>> THEN "piped" ELSE "inherit"

\* whether spawn() can return Ok: never for a name the executable search
\* does not find; a program that exists can still fail to start
spawn_outcomes(command) ==
    IF command \in Programs THEN { TRUE, FALSE } ELSE { FALSE }

\* Ok(output) => previous_command = Some(output) (main.rs 161-169)
SpawnOk(stage, rest) ==
    LET stdin  == take_stdin(previous_command)
        stdout == choose_stdout(rest)
        child  == [ stage   |-> Len(log) + 1,
                    program |-> first_token(stage),
                    argv    |-> expand_args(cwd, rest_tokens(stage)),
                    cwd     |-> cwd,
                    stdin   |-> stdin,
                    stdout  |-> stdout,
                    rd      |-> IF stdout = "piped" THEN "shell" ELSE "none",
                    state   |-> "running",
                    status  |-> 0 ]
        moved  == IF stdin # 0
                  THEN [procs EXCEPT ![stdin].rd = "child"]
                  ELSE drop_child(procs, previous_command)
    IN  /\ procs' = Append(moved, child)
        /\ previous_command' = Len(procs) + 1
        /\ log' = Append(log, [kind |-> "spawn", parts |-> parts_of(stage),
                               stdin |-> stdin, stdout |-> stdout,
                               proc |-> Len(procs) + 1])
        /\ commands' = rest
        /\ UNCHANGED << pc, input, cwd, stderr, waited, ret >>

\* SpawnErr that leaves the Child of the stage before as previous_command
SpawnErr_keep_previous(stage, rest) ==
    LET stdin  == take_stdin(previous_command)
        stdout == choose_stdout(rest)
    IN  /\ stderr' = Append(stderr, [stage |-> Len(log) + 1, what |-> "spawn"])
        /\ log' = Append(log, [kind |-> "fail", parts |-> parts_of(stage),
                               stdin |-> stdin, stdout |-> stdout, proc |-> 0])
        /\ commands' = rest
        /\ UNCHANGED << pc, input, previous_command, procs, cwd, waited, ret >>

\* SpawnErr that gives up the rest of the line: `break` after the message
SpawnErr_abort(stage, rest) ==
    LET stdin  == take_stdin(previous_command)
        stdout == choose_stdout(rest)
        closed == IF stdin # 0
                  THEN [procs EXCEPT ![stdin].rd = "closed"]
                  ELSE drop_child(procs, previous_command)
    IN  /\ procs' = closed
        /\ previous_command' = 0
        /\ stderr' = Append(stderr, [stage |-> Len(log) + 1, what |-> "spawn"])
        /\ log' = Append(log, [kind |-> "fail", parts |-> parts_of(stage),
                               stdin |-> stdin, stdout |-> stdout, proc |-> 0])
        /\ commands' = <<>>
        /\ UNCHANGED << pc, input, cwd, waited, ret >>

\* Err(e) => { previous_command = None; eprintln!(...) } (main.rs 170-173);
\* the Stdio made from the previous output was dropped with the Command
SpawnErr(stage, rest) ==
    LET stdin  == take_stdin(previous_command)
        stdout == choose_stdout(rest)
        closed == IF stdin # 0
                  THEN [procs EXCEPT ![stdin].rd = "closed"]
                  ELSE drop_child(procs, previous_command)
    IN  /\ procs' = closed
        /\ previous_command' = 0
        /\ stderr' = Append(stderr, [stage |-> Len(log) + 1, what |-> "spawn"])
        /\ log' = Append(log, [kind |-> "fail", parts |-> parts_of(stage),
                               stdin |-> stdin, stdout |-> stdout, proc |-> 0])
        /\ commands' = rest
        /\ UNCHANGED << pc, input, cwd, waited, ret >>

\* a stage that is no built-in: `continue` when it has no token (main.rs
\* 129-131), else the arm `command => { ... }` (main.rs 147-175)
StageExternal ==
    /\ pc = "run"
    /\ commands # <<>>
    /\ first_token(Head(commands)) \notin { CD, EXIT }
    /\ IF first_token(Head(commands)) = <<>>
       THEN /\ commands' = Tail(commands)
            /\ UNCHANGED << pc, input, previous_command, procs, cwd, stderr,
                            waited, ret, log >>
       ELSE IF ~unwrap_ok(procs, previous_command)
       THEN /\ pc' = "panicked"
            /\ commands' = Tail(commands)
            /\ UNCHANGED << input, previous_command, procs, cwd, stderr,
                            waited, ret, log >>
       ELSE \E ok \in spawn_outcomes(first_token(Head(commands))) :
              IF ok
              THEN SpawnOk(Head(commands), Tail(commands))
              ELSE SpawnErr(Head(commands), Tail(commands))

\* EndOfLine that reports a line with an error as a failure
EndOfLine_false_on_error ==
    /\ pc = "run"
    /\ commands = <<>>
    /\ IF stderr # <<>>
       THEN pc' = "done" /\ ret' = "false"
       ELSE IF previous_command = 0
       THEN pc' = "prompt" /\ ret' = "true"
       ELSE pc' = "wait" /\ ret' = ret
    /\ UNCHANGED << input, commands, previous_command, procs, cwd, stderr,
                    waited, log >>

\* the loop is over (main.rs 179-183): with no final command shell_run
\* returns true, otherwise it calls wait()
EndOfLine ==
    /\ pc = "run"
    /\ commands = <<>>
    /\ IF previous_command = 0
       THEN pc' = "prompt" /\ ret' = "true"
       ELSE pc' = "wait" /\ ret' = ret
    /\ UNCHANGED << input, commands, previous_command, procs, cwd, stderr,
                    waited, log >>

\* WaitReturn that reaps every process of the line
WaitReturn_all ==
    /\ pc = "wait"
    /\ \A i \in 1..Len(procs) : procs[i].state = "exited"
    /\ waited' = 1..Len(procs)
    /\ procs' = drop_child(procs, previous_command)
    /\ previous_command' = 0
    /\ ret' = "true"
    /\ pc' = "prompt"
    /\ UNCHANGED << input, commands, cwd, stderr, log >>

\* WaitReturn that does not block: try_wait() in the place of wait()
WaitReturn_no_block ==
    /\ pc = "wait"
    /\ waited' = waited \cup { previous_command }
    /\ procs' = drop_child(procs, previous_command)
    /\ previous_command' = 0
    /\ ret' = "true"
    /\ pc' = "prompt"
    /\ UNCHANGED << input, commands, cwd, stderr, log >>

\* wait() returns once the final command has exited; its result is ignored
\* and the Child is dropped (main.rs 180-183)
WaitReturn ==
    /\ pc = "wait"
    /\ procs[previous_command].state = "exited"
    /\ waited' = waited \cup { previous_command }
    /\ procs' = drop_child(procs, previous_command)
    /\ previous_command' = 0
    /\ ret' = "true"
    /\ pc' = "prompt"
    /\ UNCHANGED << input, commands, cwd, stderr, log >>

(***************************************************************************)
(* The spawned processes run on their own and exit with some status.       *)
(***************************************************************************)
ChildExit ==
    /\ pc \in { "run", "wait" }
    /\ \E i \in 1..Len(procs), st \in { 0, 1 } :
         /\ procs[i].state = "running"
         /\ procs' = [procs EXCEPT ![i].state = "exited", ![i].status = st]
    /\ UNCHANGED << pc, input, commands, previous_command, cwd, stderr,
                    waited, ret, log >>

Next ==
    \/ Prompt
    \/ ReadLine
    \/ ReadError
    \/ StageCd
    \/ StageExit
    \/ StageExternal
    \/ EndOfLine
    \/ WaitReturn
    \/ ChildExit

Spec == Init /\ [][Next]_vars

\* the scheduling the code guarantees: the interpreter takes its next step
\* when it can (reading a line excepted: the input may never come)
Fairness ==
    /\ WF_vars(Prompt)
    /\ WF_vars(StageCd)
    /\ WF_vars(StageExit)
    /\ WF_vars(StageExternal)
    /\ WF_vars(EndOfLine)
    /\ WF_vars(WaitReturn)

FairSpec == Spec /\ Fairness

\* the same interpreter reading the one-stage lines of ArgLines
ReadArgLine == ReadFrom(ArgLines)

NextArgs ==
    \/ Prompt
    \/ ReadArgLine
    \/ StageCd
    \/ StageExternal
    \/ EndOfLine
    \/ WaitReturn
    \/ ChildExit

ArgSpec == Init /\ [][NextArgs]_vars

\* the types of the state
TypeOK ==
    /\ pc \in { "prompt", "read", "run", "wait", "done", "panicked" }
    /\ ret \in { "none", "true", "false" }
    /\ previous_command \in 0..Len(procs)
    /\ waited \subseteq 1..Len(procs)
    /\ \A i \in 1..Len(procs) :
         /\ procs[i].stdin \in 0..(i - 1)
         /\ procs[i].stdout \in { "piped", "inherit" }
         /\ procs[i].rd \in { "none", "shell", "child", "closed" }
         /\ procs[i].state \in { "running", "exited" }

\* the `else { continue }` of main.rs 129-131 is never taken: a stage is
\* trimmed and not empty, so it has a first token
StagesHaveToken == \A i \in 1..Len(commands) : first_token(commands[i]) # <<>>


(***************************************************************************)
(* Vocabulary of the properties.                                           *)
(***************************************************************************)
\* the pieces of a line between pipe separators that hold a character other
\* than whitespace, counted on the raw line
HasText(piece) == \E n \in 1..Len(piece) : ~is_whitespace(piece[n])

NonBlankPieces(line) == SelectSeq(split(line, "|"), HasText)

StageCount(line) == Len(NonBlankPieces(line))

\* the first word of a piece that has one
FirstWord(piece) == Head(split_whitespace(piece))

HasPipe(line) == \E n \in 1..Len(line) : line[n] = "|"

\* a line of pipe separators and whitespace only
BlankLine(line) == \A n \in 1..Len(line) : line[n] = "|" \/ is_whitespace(line[n])

HasError(n, what) == \E e \in 1..Len(stderr) : stderr[e] = [stage |-> n, what |-> what]

IsExternal(entry) == entry.kind \in { "spawn", "fail" }

\* shell_run has returned: to the top of main's loop, or out of main
Returned == pc \in { "prompt", "done" } /\ ret # "none"

(***************************************************************************)
(* C1.  As stated: every spawned stage i > 1 has as standard input the     *)
(* output pipe of the process of stage i-1, whatever stage i-1 is.         *)
(***************************************************************************)
C1_AsClaimed ==
    \A j \in 1..Len(procs) :
        procs[j].stage > 1 =>
            /\ procs[j].stdin # 0
            /\ procs[procs[j].stdin].stage = procs[j].stage - 1

\* C1, amended: a spawned stage i > 1 has as standard input the read end of
\* the output pipe of stage i-1's process when stage i-1 is an external
\* stage that spawned, and the inherited standard input when stage i-1 is a
\* cd or an external stage that failed to spawn.
C1_StdinIsPreviousOutput ==
    \A j \in 1..Len(procs) :
        procs[j].stage > 1 =>
            LET before == log[procs[j].stage - 1]
            IN  IF before.kind = "spawn"
                THEN /\ procs[j].stdin = before.proc
                     /\ procs[before.proc].stage = procs[j].stage - 1
                     /\ procs[before.proc].stdout = "piped"
                     /\ procs[before.proc].rd = "child"
                ELSE /\ before.kind \in { "cd", "fail" }
                     /\ procs[j].stdin = 0

\* a third stage reads the second's output, which reads the first's
C1_Witness ==
    /\ Len(procs) = 3
    /\ procs[3].stage = 3 /\ procs[3].stdin = 2
    /\ procs[2].stage = 2 /\ procs[2].stdin = 1

(***************************************************************************)
(* C2.  An external stage is given a pipe as standard output exactly when  *)
(* another non-empty stage follows it in the line, whatever that stage is, *)
(* and the inherited standard output otherwise; so a process with the      *)
(* inherited standard output belongs to the last stage of the line.        *)
(***************************************************************************)
C2_PipedIffStageFollows ==
    /\ \A i \in 1..Len(log) :
           IsExternal(log[i]) =>
               /\ log[i].stdout = "piped" <=> i < StageCount(input)
               /\ log[i].stdout = "inherit" <=> i = StageCount(input)
    /\ \A j \in 1..Len(procs) :
           /\ procs[j].stdout = log[procs[j].stage].stdout
           /\ procs[j].stdout = "inherit" => procs[j].stage = StageCount(input)

\* a stage followed by a cd was spawned with a pipe, a last stage without
C2_Witness ==
    /\ Len(log) = 3
    /\ log[1].kind = "spawn" /\ log[1].stdout = "piped"
    /\ log[2].kind = "cd"
    /\ log[3].kind = "spawn" /\ log[3].stdout = "inherit"

(***************************************************************************)
(* C3.  When shell_run has returned true from a line whose last stage is   *)
(* an external program that spawned, that process has exited and was       *)
(* waited on, whatever its exit status.                                    *)
(***************************************************************************)
C3_ReturnsAfterLastStageExited ==
    ( /\ Returned
      /\ log # <<>>
      /\ log[Len(log)].kind = "spawn"
      /\ Len(log) = StageCount(input) )
    => /\ ret = "true"
       /\ procs[log[Len(log)].proc].state = "exited"
       /\ log[Len(log)].proc \in waited

\* returned true although the last stage's process failed
C3_Witness ==
    /\ pc = "prompt"
    /\ ret = "true"
    /\ log # <<>>
    /\ log[Len(log)].kind = "spawn"
    /\ procs[log[Len(log)].proc].status = 1
    /\ log[Len(log)].proc \in waited

(***************************************************************************)
(* C4.  The interpreter holds at most one pipe read end, that of           *)
(* previous_command; the read end of a pipe goes to at most one stage, the *)
(* external stage right after the one that writes it; and when shell_run   *)
(* has returned, on any path, the interpreter holds no pipe read end.      *)
(***************************************************************************)
C4_OnePendingHandle ==
    /\ Cardinality({ i \in 1..Len(procs) : procs[i].rd = "shell" }) <= 1
    /\ \A i \in 1..Len(procs) :
           /\ procs[i].rd = "shell" => previous_command = i
           /\ Cardinality({ k \in 1..Len(log) :
                              IsExternal(log[k]) /\ log[k].stdin = i }) <= 1
           /\ \A k \in 1..Len(log) :
                  (IsExternal(log[k]) /\ log[k].stdin = i) =>
                      k = procs[i].stage + 1
           /\ procs[i].rd = "child" =>
                  \E j \in 1..Len(procs) : procs[j].stdin = i
    /\ Returned => \A i \in 1..Len(procs) : procs[i].rd # "shell"

\* shell_run returned through exit and closed the pipe it was holding
C4_Witness ==
    /\ pc = "done"
    /\ \E i \in 1..Len(procs) : procs[i].stdout = "piped" /\ procs[i].rd = "closed"

(***************************************************************************)
(* C5.  A cd stage, whether the directory change succeeds or fails, leaves *)
(* no pending handle: the read end of the pipe of the stage before it is   *)
(* closed in the interpreter, and the first external stage after it is     *)
(* given the inherited standard input.                                     *)
(***************************************************************************)
C5_CdDropsPendingHandle ==
    \A i \in 1..Len(log) :
        log[i].kind = "cd" =>
            /\ Len(log) = i => previous_command = 0
            /\ (i > 1 /\ log[i - 1].kind = "spawn") =>
                   /\ procs[log[i - 1].proc].rd = "closed"
                   /\ \A j \in 1..Len(procs) : procs[j].stdin # log[i - 1].proc
            /\ \A k \in (i + 1)..Len(log) :
                   ( /\ IsExternal(log[k])
                     /\ \A m \in (i + 1)..(k - 1) : log[m].kind = "cd" )
                   => log[k].stdin = 0

\* a cd that failed, after a stage that was writing to a pipe
C5_Witness ==
    \E i \in 2..Len(log) :
        /\ log[i].kind = "cd"
        /\ \E n \in 1..Len(stderr) : stderr[n] = [stage |-> i, what |-> "cd"]
        /\ log[i - 1].kind = "spawn"
        /\ procs[log[i - 1].proc].rd = "closed"


(***************************************************************************)
(* C6.  A stage that fails to spawn prints an error and leaves no pending  *)
(* handle: the read end it was given is closed and reaches no process, the *)
(* first external stage after it is given the inherited standard input,    *)
(* and the stages after it are still processed: shell_run ends only at the *)
(* end of the line or at an exit stage.                                    *)
(***************************************************************************)
C6_SpawnFailureGoesOn ==
    \A i \in 1..Len(log) :
        log[i].kind = "fail" =>
            /\ HasError(i, "spawn")
            /\ Len(log) = i => previous_command = 0
            /\ log[i].stdin # 0 =>
                   /\ procs[log[i].stdin].rd = "closed"
                   /\ \A j \in 1..Len(procs) : procs[j].stdin # log[i].stdin
            /\ \A k \in (i + 1)..Len(log) :
                   ( /\ IsExternal(log[k])
                     /\ \A m \in (i + 1)..(k - 1) : log[m].kind = "cd" )
                   => log[k].stdin = 0
            /\ pc = "run" => Len(log) + Len(commands) = StageCount(input)
            /\ Returned =>
                   \/ ret = "true" /\ Len(log) = StageCount(input)
                   \/ ret = "false" /\ log[Len(log)].kind = "exit"

\* a stage failed with a pipe as input, and the stage after it was spawned
C6_Witness ==
    /\ Len(log) = 3
    /\ log[1].kind = "spawn"
    /\ log[2].kind = "fail" /\ log[2].stdin = log[1].proc
    /\ log[3].kind = "spawn" /\ log[3].stdin = 0

(***************************************************************************)
(* C7.  A stage whose first token is exit, at any position, makes          *)
(* shell_run return false when it is reached: the stages before it were    *)
(* processed, no stage after it is, and main returns without reading       *)
(* another line.                                                           *)
(***************************************************************************)
C7_ExitStopsTheLoop ==
    /\ \A k \in 1..Len(log) :
           /\ FirstWord(NonBlankPieces(input)[k]) = EXIT <=> log[k].kind = "exit"
           /\ log[k].kind = "exit" =>
                  /\ k = Len(log)
                  /\ pc = "done"
                  /\ ret = "false"
                  /\ previous_command = 0
                  /\ \A j \in 1..Len(procs) : procs[j].stage < k
                  /\ Len(commands) = StageCount(input) - k
    /\ pc = "done" =>
           /\ log # <<>> /\ log[Len(log)].kind = "exit"
           /\ ~ENABLED Next

\* exit as the second of three stages: the first ran, the third did not
C7_Witness ==
    /\ pc = "done"
    /\ Len(log) = 2
    /\ log[1].kind = "spawn"
    /\ Len(procs) = 1
    /\ commands # <<>>

(***************************************************************************)
(* C8.  For a line without pipe separator whose first token is cd or exit, *)
(* with or without arguments, no process is spawned, no spawn is attempted *)
(* and no process is waited on.                                            *)
(***************************************************************************)
C8_BuiltinLineSpawnsNothing ==
    ( /\ ~HasPipe(input)
      /\ split_whitespace(input) # <<>>
      /\ Head(split_whitespace(input)) \in { CD, EXIT } )
    => /\ procs = <<>>
       /\ waited = {}
       /\ pc # "wait"
       /\ \A i \in 1..Len(log) : ~IsExternal(log[i])
       /\ Returned => Len(log) = 1

\* a cd with an argument was the whole line
C8_Witness ==
    /\ ~HasPipe(input)
    /\ Returned
    /\ Len(log) = 1
    /\ log[1].kind = "cd"
    /\ Len(log[1].parts) = 2
    /\ procs = <<>>

(***************************************************************************)
(* C9.  A cd without argument sets the working directory to the home       *)
(* directory; a cd whose argument names an existing directory that can be  *)
(* entered sets it to that directory, with no error; a cd whose argument   *)
(* names nothing that can be entered (missing, a file, a directory without *)
(* permission) leaves it unchanged and prints one error; in each case the  *)
(* loop goes on with the next stage, and shell_run still returns true at   *)
(* the end of the line.                                                    *)
(***************************************************************************)
\* the step is a cd stage
CdStep == Len(log') = Len(log) + 1 /\ log'[Len(log')].kind = "cd"

\* a name without expansion or path syntax
PlainName(tok) ==
    \A n \in 1..Len(tok) : tok[n] \notin { "*", "?", "[", "~", "$", "/", "." }

CdEffect ==
    CdStep =>
        LET parts == log'[Len(log')].parts
        IN  /\ Len(parts) = 1 => cwd' = << <<"h">> >> /\ stderr' = stderr
            /\ (Len(parts) >= 2 /\ PlainName(parts[2])) =>
                   IF Append(cwd, parts[2]) \in Dirs
                   THEN cwd' = Append(cwd, parts[2]) /\ stderr' = stderr
                   ELSE /\ cwd' = cwd
                        /\ stderr' = Append(stderr, [stage |-> Len(log'), what |-> "cd"])
            /\ cwd' \in Dirs
            /\ cwd' # cwd => stderr' = stderr
            /\ pc' = "run"
            /\ commands' = Tail(commands)

CdFailureGoesOn ==
    \A i \in 1..Len(log) :
        HasError(i, "cd") =>
            /\ log[i].kind = "cd"
            /\ pc = "run" => Len(log) + Len(commands) = StageCount(input)
            /\ Returned =>
                   \/ ret = "true" /\ Len(log) = StageCount(input)
                   \/ ret = "false" /\ log[Len(log)].kind = "exit"

C9_CdSetsWorkingDirectory == [][CdEffect]_vars /\ []CdFailureGoesOn

\* a cd failed, the stage after it was spawned and shell_run returned true
C9_Witness ==
    /\ pc = "prompt"
    /\ ret = "true"
    /\ Len(log) = 2
    /\ HasError(1, "cd")
    /\ log[2].kind = "spawn"
    /\ cwd = << <<"h">>, <<"d">> >>

(***************************************************************************)
(* C10.  A line that is empty or holds only pipe separators and whitespace *)
(* has no stage: nothing is spawned, waited on or printed, the working     *)
(* directory stays, and shell_run returns true to the top of main's loop.  *)
(* In every line the stages are the pieces that hold text, in order: an    *)
(* empty piece never becomes a stage.                                      *)
(***************************************************************************)
NoEmptyStage ==
    /\ Len(log) + Len(commands) = StageCount(input)
    /\ \A i \in 1..Len(commands) :
           /\ HasText(commands[i])
           /\ commands[i] = trim(NonBlankPieces(input)[Len(log) + i])
    /\ \A i \in 1..Len(log) :
           /\ log[i].parts # <<>>
           /\ log[i].parts = split_whitespace(NonBlankPieces(input)[i])

\* "read" and "panicked" (read_line failed) are outside shell_run
BlankLineNoOp ==
    (BlankLine(input) /\ pc \notin { "read", "panicked" }) =>
        /\ commands = <<>>
        /\ log = <<>>
        /\ procs = <<>>
        /\ waited = {}
        /\ stderr = <<>>
        /\ pc \in { "run", "prompt" }
        /\ ret \in { "none", "true" }

BlankLineStep ==
    /\ BlankLine(input') => cwd' = cwd
    /\ (BlankLine(input) /\ pc = "run") => pc' = "prompt" /\ ret' = "true"

C10_BlankLineIsNoOp == []NoEmptyStage /\ []BlankLineNoOp /\ [][BlankLineStep]_vars

\* shell_run returned true from a line of separators
C10_Witness ==
    /\ HasPipe(input)
    /\ BlankLine(input)
    /\ pc = "prompt"
    /\ ret = "true"


(***************************************************************************)
(* C11.  As stated: main's loop stops only when an exit stage was reached. *)
(***************************************************************************)
C11_AsClaimed ==
    pc \in { "done", "panicked" } => (log # <<>> /\ log[Len(log)].kind = "exit")

NoExitReached == \A i \in 1..Len(log) : log[i].kind # "exit"

\* C11, amended: main's loop stops only when an exit stage was reached or
\* when read_line fails (unwrap panics, before shell_run is called); after
\* every line on which no exit stage is reached, with or without spawn and
\* directory-change failures, shell_run, when it returns, returns true, and
\* main prints the prompt and reads the next line.
C11_Stops ==
    /\ pc = "done" => (log # <<>> /\ log[Len(log)].kind = "exit" /\ ret = "false")
    /\ pc = "panicked" => (input = <<>> /\ log = <<>> /\ ret = "none")
    /\ (Returned /\ NoExitReached) =>
           /\ ret = "true"
           /\ pc = "prompt"
           /\ Len(log) = StageCount(input)
    /\ pc = "prompt" => ENABLED Prompt
    /\ pc = "read" => ENABLED ReadLine

C11_Step ==
    /\ (pc \in { "run", "wait" } /\ pc' \notin { "run", "wait" } /\ NoExitReached') =>
           (pc' = "prompt" /\ ret' = "true")
    /\ pc = "prompt" => pc' = "read"
    /\ pc = "read" => pc' \in { "run", "panicked" }

C11_LoopGoesOn == []C11_Stops /\ [][C11_Step]_vars

\* a line with a failed cd and a failed spawn returned true
C11_Witness ==
    /\ pc = "prompt"
    /\ ret = "true"
    /\ HasError(1, "cd")
    /\ HasError(2, "spawn")

(***************************************************************************)
(* C12.  Within one line at most one process is waited on, the process of  *)
(* the last stage; the processes of the other stages, and those dropped by *)
(* a later cd, failed spawn or exit, are never waited on, and the          *)
(* interpreter's steps are enabled whether or not they have exited.        *)
(***************************************************************************)
C12_WaitsOnLastStageOnly ==
    /\ Cardinality(waited) <= 1
    /\ \A i \in waited :
           /\ i = Len(procs)
           /\ procs[i].stage = StageCount(input)
           /\ log[Len(log)].kind = "spawn" /\ log[Len(log)].proc = i
           /\ procs[i].state = "exited"
    /\ pc = "wait" =>
           /\ previous_command = Len(procs)
           /\ procs[previous_command].stage = StageCount(input)
    \* a cd stage has no condition but the three that select it
    /\ pc = "run" =>
           \/ commands # <<>> /\ first_token(Head(commands)) = CD
           \/ ENABLED StageExit
           \/ ENABLED StageExternal
           \/ ENABLED EndOfLine
    /\ (pc = "wait" /\ procs[previous_command].state = "exited") => ENABLED WaitReturn
    /\ Returned =>
           \A i \in 1..Len(procs) :
               (procs[i].stage < Len(log) \/ log[Len(log)].kind # "spawn") =>
                   i \notin waited

\* shell_run returned while the process of the first stage was running
C12_Witness ==
    /\ pc = "prompt"
    /\ ret = "true"
    /\ Len(procs) = 2
    /\ procs[1].state = "running"
    /\ waited = { 2 }

(***************************************************************************)
(* C13.  shell_run terminates for every line but for the wait on a last    *)
(* stage that is running: every stage is processed once, in order; after a *)
(* last stage that failed to spawn it returns true, with the error         *)
(* printed, without waiting on any process.                                *)
(***************************************************************************)
C13_Safety ==
    /\ Len(log) + Len(commands) = StageCount(input)
    /\ \A i \in 1..Len(log) :
           log[i].parts = split_whitespace(NonBlankPieces(input)[i])
    /\ pc = "wait" =>
           /\ commands = <<>>
           /\ log[Len(log)].kind = "spawn"
           /\ previous_command = log[Len(log)].proc
    /\ (Returned /\ log # <<>> /\ log[Len(log)].kind = "fail") =>
           /\ ret = "true"
           /\ HasError(Len(log), "spawn")
           /\ waited = {}

\* what is left of shell_run: the stages to process, then the final wait
Remaining(p, cs) ==
    IF p = "run" THEN 2 * Len(cs) + 2 ELSE IF p = "wait" THEN 1 ELSE 0

\* every step taken by shell_run itself brings it nearer to its return; the
\* other steps are exits of children, and only the final wait depends on one
C13_Step ==
    /\ (pc \in { "run", "wait" } /\ (pc' # pc \/ commands' # commands \/ log' # log)) =>
           /\ Remaining(pc', commands') < Remaining(pc, commands)
           /\ pc' \in { "run", "wait", "prompt", "done" }
    /\ (pc = "run" /\ pc' = "run" /\ log' # log) =>
           (commands' = Tail(commands) /\ Len(log') = Len(log) + 1)
    /\ (pc = "run" /\ commands = <<>> /\ log # <<>> /\ log[Len(log)].kind = "fail"
           /\ pc' # pc) =>
           (pc' = "prompt" /\ ret' = "true" /\ waited' = {})

C13_NeverStuck ==
    /\ pc = "run" =>
           \/ commands # <<>> /\ first_token(Head(commands)) = CD
           \/ ENABLED (StageExit \/ StageExternal \/ EndOfLine)
    /\ pc = "wait" =>
           \/ procs[previous_command].state = "running"
           \/ ENABLED WaitReturn

C13_ShellRunTerminates == []C13_Safety /\ []C13_NeverStuck /\ [][C13_Step]_vars

\* returned true after a last stage that failed to spawn, while the stage
\* before it is still running
C13_Witness ==
    /\ pc = "prompt"
    /\ ret = "true"
    /\ Len(log) = 2
    /\ log[1].kind = "spawn"
    /\ log[2].kind = "fail"
    /\ procs[1].state = "running"
    /\ waited = {}


(***************************************************************************)
(* Vocabulary of the claims about expansion.                               *)
(***************************************************************************)
\* the trailing tokens of the stage a process was spawned for
TokensOf(j) == Tail(log[procs[j].stage].parts)

\* the matcher's enumeration for a token, as seen from directory c
Matches(c, tok) == glob(c, expand_or_raw(tok)).paths

\* the token is a wildcard token with at least one match
HasMatches(c, tok) ==
    /\ contains_wildcard(expand_or_raw(tok))
    /\ glob(c, expand_or_raw(tok)).ok
    /\ Matches(c, tok) # <<>>

\* the number of strings a token stands for
Width(c, tok) == IF HasMatches(c, tok) THEN Len(Matches(c, tok)) ELSE 1

RECURSIVE WidthBefore(_, _, _)
WidthBefore(c, toks, i) ==
    IF i <= 1 THEN 0 ELSE WidthBefore(c, toks, i - 1) + Width(c, toks[i - 1])

\* the part of the argument list of process j at the position of token i
Slot(j, i) ==
    LET c    == procs[j].cwd
        toks == TokensOf(j)
        from == WidthBefore(c, toks, i) + 1
        to   == WidthBefore(c, toks, i) + Width(c, toks[i])
    IN  IF to <= Len(procs[j].argv)
        THEN SubSeq(procs[j].argv, from, to)
        ELSE << "short" >>

Range(f) == { f[x] : x \in DOMAIN f }

(***************************************************************************)
(* C14.  A trailing token whose expanded form holds a wildcard and matches *)
(* N >= 1 entries stands in the argument list, at its own position, for    *)
(* exactly the N matches in the matcher's order; the pattern is not there. *)
(***************************************************************************)
C14_MatchesReplaceToken ==
    \A j \in 1..Len(procs) :
        \A i \in 1..Len(TokensOf(j)) :
            HasMatches(procs[j].cwd, TokensOf(j)[i]) =>
                /\ Slot(j, i) = Matches(procs[j].cwd, TokensOf(j)[i])
                /\ expand_or_raw(TokensOf(j)[i]) \notin Range(Slot(j, i))
                /\ i = Len(TokensOf(j)) =>
                       WidthBefore(procs[j].cwd, TokensOf(j), i + 1) = Len(procs[j].argv)

\* `ls d *` run in /h: the four entries of /h follow d
C14_Witness ==
    /\ Len(procs) = 1
    /\ log[1].parts = << <<"l", "s">>, <<"d">>, <<"*">> >>
    /\ procs[1].argv = << <<"d">>, <<"$", "U">>, <<"a">>, <<"d">>, <<"x">> >>

ExpansionFails(tok) == ~shellexpand_full(tok).ok

(***************************************************************************)
(* C15.  As stated: a token whose variable expansion fails is in the       *)
(* argument list as it was written.                                        *)
(***************************************************************************)
C15_AsClaimed ==
    \A j \in 1..Len(procs) :
        \A i \in 1..Len(TokensOf(j)) :
            ExpansionFails(TokensOf(j)[i]) => Slot(j, i) = << TokensOf(j)[i] >>

\* C15, amended: a wildcard token without matches, or whose pattern is
\* invalid, stands for one string, the expanded token; a token whose
\* variable expansion fails is taken as it was written by the wildcard
\* step: it stands for itself unless it holds a wildcard and has matches,
\* and then for its matches; the stage is spawned all the same.

C15_FallbackToToken ==
    /\ \A j \in 1..Len(procs) :
           \A i \in 1..Len(TokensOf(j)) :
               LET tok == TokensOf(j)[i]
                   c   == procs[j].cwd
               IN  /\ (contains_wildcard(expand_or_raw(tok)) /\ ~HasMatches(c, tok)) =>
                          Slot(j, i) = << expand_or_raw(tok) >>
                   /\ ExpansionFails(tok) =>
                          /\ expand_or_raw(tok) = tok
                          /\ ~HasMatches(c, tok) => Slot(j, i) = << tok >>
                          /\ HasMatches(c, tok) => Slot(j, i) = glob(c, tok).paths
    /\ pc # "panicked"
    /\ \A n \in 1..Len(log) :
           /\ log[n].parts[1] \notin { CD, EXIT } => log[n].kind \in { "spawn", "fail" }
           /\ log[n].parts[1] \in Programs => log[n].kind \in { "spawn", "fail" }
    /\ \A e \in 1..Len(stderr) : stderr[e].what \in { "cd", "spawn" }

\* `ls e* $U*` was spawned: e* is passed as it is, $U* as the file $U
C15_Witness ==
    /\ Len(procs) = 1
    /\ log[1].kind = "spawn"
    /\ log[1].parts = << <<"l", "s">>, <<"e", "*">>, <<"$", "U", "*">> >>
    /\ procs[1].argv = << <<"e", "*">>, <<"$", "U">> >>

(***************************************************************************)
(* C16.  The first token of a stage is used as written: the stage is a cd  *)
(* or an exit only if the token is that word, otherwise the token is the   *)
(* program name; the trailing tokens are expanded one by one and the       *)
(* argument list is their expansions one after the other.                  *)
(***************************************************************************)
RECURSIVE ConcatExpansions(_, _, _)
ConcatExpansions(c, toks, n) ==
    IF n = 0 THEN <<>>
    ELSE ConcatExpansions(c, toks, n - 1) \o expand_arg(c, toks[n])

C16_FirstTokenAsWritten ==
    /\ \A n \in 1..Len(log) :
           LET written == FirstWord(NonBlankPieces(input)[n])
           IN  /\ log[n].parts[1] = written
               /\ log[n].kind = "cd" <=> written = CD
               /\ log[n].kind = "exit" <=> written = EXIT
               /\ log[n].kind = "spawn" => procs[log[n].proc].program = written
               /\ (written \notin Programs /\ written \notin { CD, EXIT }) =>
                      (log[n].kind = "fail" /\ HasError(n, "spawn"))
    /\ \A j \in 1..Len(procs) :
           procs[j].argv =
               ConcatExpansions(procs[j].cwd, TokensOf(j), Len(TokensOf(j)))

\* `$V d` is not a cd: the spawn of a program named $V failed
C16_Witness ==
    /\ pc = "prompt"
    /\ input = <<"$", "V", " ", "d", "\n">>
    /\ log[1].kind = "fail"
    /\ HasError(1, "spawn")
    /\ cwd = << <<"h">> >>

(***************************************************************************)
(* C17.  The target of a cd whose expanded first argument holds a wildcard *)
(* is the first match, in the matcher's order, that is a directory; the    *)
(* expanded argument itself when no match is a directory or the pattern is *)
(* invalid; the arguments after the first play no part.                    *)
(***************************************************************************)
CdTarget(c, parts) ==
    LET raw      == IF Len(parts) = 1 THEN <<"~">> ELSE parts[2]
        expanded == expand_or_raw(raw)
        found    == glob(c, expanded)
        dirs     == { k \in 1..Len(found.paths) : is_dir(c, found.paths[k]) }
    IN  IF contains_wildcard(expanded) /\ found.ok /\ dirs # {}
        THEN found.paths[CHOOSE k \in dirs : \A m \in dirs : k <= m]
        ELSE expanded

C17_Step == CdStep => log'[Len(log')].target = CdTarget(cwd, log'[Len(log')].parts)

C17_CdTakesFirstDirectory == [][C17_Step]_vars

\* `cd * x*` in /h: the matches $U and a are files, d is entered
C17_Witness ==
    /\ Len(log) = 1
    /\ log[1].kind = "cd"
    /\ log[1].parts = << CD, <<"*">>, <<"x", "*">> >>
    /\ log[1].target = <<"d">>
    /\ cwd = << <<"h">>, <<"d">> >>

(***************************************************************************)
(* C18.  A pending handle at the start of a stage belongs to a process     *)
(* spawned with a piped standard output whose read end the shell holds, so *)
(* the unwrap of line 152 never panics; a process with inherited standard  *)
(* output is the last stage of its line and is no stage's input.           *)
(***************************************************************************)
C18_PendingHandleIsPiped ==
    /\ (pc = "run" /\ commands # <<>> /\ previous_command # 0) =>
           /\ procs[previous_command].stdout = "piped"
           /\ procs[previous_command].rd = "shell"
           /\ unwrap_ok(procs, previous_command)
    /\ pc = "panicked" => (log = <<>> /\ procs = <<>>)
    /\ \A j \in 1..Len(procs) :
           procs[j].stdout = "inherit" =>
               /\ procs[j].stage = StageCount(input)
               /\ procs[j].rd = "none"
               /\ \A k \in 1..Len(procs) : procs[k].stdin # j
               /\ \A n \in 1..Len(log) : log[n].stdin # j

\* a stage is about to take the piped output of the stage before it
C18_Witness ==
    /\ pc = "run"
    /\ commands # <<>>
    /\ first_token(Head(commands)) \in Programs
    /\ previous_command # 0
    /\ procs[previous_command].stdout = "piped"

(***************************************************************************)
(* C19.  Every trailing token gives at least one string: the argument list *)
(* of a spawned stage is at least as long as its trailing tokens are many, *)
(* and each token's place in it is not empty.                              *)
(***************************************************************************)
C19_NoTokenDropped ==
    \A j \in 1..Len(procs) :
        /\ Len(procs[j].argv) >= Len(TokensOf(j))
        /\ Len(procs[j].argv) >=
               WidthBefore(procs[j].cwd, TokensOf(j), Len(TokensOf(j)) + 1)
        /\ \A i \in 1..Len(TokensOf(j)) :
               /\ Slot(j, i) # <<>>
               /\ Slot(j, i) # << "short" >>
               /\ ~HasMatches(procs[j].cwd, TokensOf(j)[i]) =>
                      Slot(j, i) = << expand_or_raw(TokensOf(j)[i]) >>

\* `ls e* [` : neither pattern gives a match, both tokens are passed
C19_Witness ==
    /\ Len(procs) = 1
    /\ log[1].parts = << <<"l", "s">>, <<"e", "*">>, <<"[">> >>
    /\ Len(procs[1].argv) = 2

=============================================================================
